---- MODULE Spec2Model ----
(***************************************************************************)
(* A model of next-mvc: Page.getInitialProps (the initial-state           *)
(* resolution with redirect-as-control-flow), the redux store embedded    *)
(* in a Page and in a Controller, and their dispatch entry points.        *)
(*                                                                         *)
(* JavaScript objects are functions from field names to values; a thrown  *)
(* value carries an identity (id) next to its shape, so that === and a    *)
(* structural comparison are different tests.                             *)
(***************************************************************************)
EXTENDS Integers, Sequences, FiniteSets, TLC

\* ---------------------------------------------------------------- bounds
MaxSteps == 3
MaxPeerSteps == 2

\* ---------------------------------------------------------------- values
Fields == {"x", "y"}
Vals == {1, 2}

\* every plain object over Fields (a partial state, a store state)
Objects == UNION {[D -> Vals] : D \in SUBSET Fields}
EmptyObject == [k \in {} |-> 1]

\* the value of a missing argument or of a function that returns nothing
Undefined == [undefined |-> TRUE]

\* what the initializer hands to setState
SetStatePartials ==
    { [k \in {"x"} |-> 1], [k \in {"x"} |-> 2], [k \in {"y"} |-> 2],
      [k \in {"x", "y"} |-> 1] }

\* setState(partial) and setState(partial, callback) as user code calls them
SetStateCalls ==
    { [partial |-> p, callback |-> FALSE] : p \in SetStatePartials } \cup
    { [partial |-> [k \in {"x"} |-> 2], callback |-> TRUE] }

\* what an initializer may return or resolve with
Partials == { Undefined, [k \in {"x"} |-> 2], [k \in {"y"} |-> 1] }

\* { ...a, ...b } ; spreading undefined contributes no field
Spread(a, b) ==
    LET A == IF a = Undefined THEN EmptyObject ELSE a
        B == IF b = Undefined THEN EmptyObject ELSE b
    IN  [k \in (DOMAIN A) \cup (DOMAIN B) |-> IF k \in DOMAIN B THEN B[k] ELSE A[k]]

\* const redirected = {}
redirected == [id |-> 0, shape |-> "{}"]
\* values user code can throw: another empty object, an Error
OtherEmpty == [id |-> 1, shape |-> "{}"]
SomeError == [id |-> 2, shape |-> "Error"]
UserThrowables == {OtherEmpty, SomeError}
\* what redux throws for an action that is not a plain object
ReduxError == [id |-> 3, shape |-> "Error"]
\* reading a property of null
TypeError == [id |-> 4, shape |-> "TypeError"]
\* what a transport rejects with
TransportError == [id |-> 6, shape |-> "Error"]
\* the rejection of a request that ran out of time
TimeoutError == [id |-> 7, shape |-> "TimeoutError"]
\* reading an identifier that is declared nowhere
ReferenceError == [id |-> 5, shape |-> "ReferenceError"]
NoError == [id |-> 9, shape |-> "none"]

\* ---------------------------------------------------------------- routes
AppPrefixes == {<< >>, <<"/app">>}
AsPaths == {<<"/a">>, <<"/b">>}
RelUrl == <<"/login">>
AbsUrl == <<"http:", "//host/">>
BareUrl == <<"http:", "//host">>
\* goto(url, replace, raw) and redirect(url, raw) as user code calls them
GotoCalls ==
    { [url |-> RelUrl, replace |-> FALSE, raw |-> FALSE],
      [url |-> AbsUrl, replace |-> TRUE, raw |-> FALSE],
      [url |-> << >>, replace |-> FALSE, raw |-> TRUE] }
RedirectCalls ==
    { [url |-> RelUrl, raw |-> FALSE],
      [url |-> AbsUrl, raw |-> FALSE] }

\* ---------------------------------------------------------------- reducers
Types == {"setX", "setY", "bad", "other"}
SetsField(f) == [isFunction |-> TRUE, sets |-> f]
NotAFunction == [isFunction |-> FALSE, sets |-> "x"]
HandlersXY == [t \in {"setX", "setY"} |-> IF t = "setX" THEN SetsField("x") ELSE SetsField("y")]
HandlersXBad == [t \in {"setX", "bad"} |-> IF t = "setX" THEN SetsField("x") ELSE NotAFunction]
NoHandlers == [t \in {} |-> NotAFunction]
\* this.reducer: a handler map, a reducer function, or left unset (null)
Reducers ==
    { [kind |-> "object", handlers |-> HandlersXY],
      [kind |-> "object", handlers |-> HandlersXBad],
      [kind |-> "function", handlers |-> NoHandlers],
      [kind |-> "null", handlers |-> NoHandlers] }

VARIABLES
    kind,        \* which instance this behaviour is about: "page" or "controller"
    isServer,    \* const isServer = typeof window === 'undefined'
    appPrefix,   \* publicRuntimeConfig.appPrefix
    context,     \* the route context handed to getInitialProps
    initialState, \* Controller.initialState
    form,        \* the initializer: "none", "sync" or "async"
    reducer,     \* this.reducer
    immer,       \* this.immer
    pc,          \* where the resolution is
    state,       \* page.state, the working state
    store,       \* the instance's store (page.$store, controller.store)
    retired,     \* the store the controller held before its last $init
    actions,     \* the bound dispatchers (page.$actions, controller.actions)
    res,         \* the response object (server)
    nav,         \* the navigations performed (client)
    call,        \* the goto call in progress
    redirectCalled, \* the guarded redirect entry point has been called
    raised,      \* the sentinel has been thrown
    settled,     \* how the initializer ended
    awaiting,    \* getInitialProps has returned a pending promise
    outcome,     \* how the resolution ended
    ended,       \* how many times the resolution reached a terminal state
    last,        \* the statement just executed, when it was a state or store operation:
                 \* its arguments and the store's state before it
    steps,       \* user statements executed
    afterRedirect, \* user statements executed after a guarded redirect call
    peer,        \* a second resolution call of the same page class, on its own instance
    ctrl,        \* the controller's lifecycle: onCreate, context.finished, $init's result
    req,         \* the inbound request (server): req.headers
    request      \* the fetch call made last: what the transport was handed, how it ended

vars == <<kind, isServer, appPrefix, context, initialState, form, reducer, immer, pc,
          state, store, retired, actions, res, nav, call, redirectCalled, raised, settled,
          awaiting, outcome, ended, last, steps, afterRedirect, peer, ctrl, req, request>>

\* ---------------------------------------------------------------- the store
\* the action redux dispatches when a store is created
InitAction == [type |-> "@@redux/INIT", payload |-> Undefined]

\* a handler written for draft mode: draft[f] = payload
HandlerOnDraft(draft, h, payload) ==
    [k \in (DOMAIN draft) \cup {h.sets} |-> IF k = h.sets THEN payload ELSE draft[k]]

\* the equivalent handler written for plain mode: return { ...state, [f]: payload }
HandlerOnState(st, h, payload) ==
    Spread(st, [k \in {h.sets} |-> payload])

\* immer(base, recipe): the recipe runs on a draft of base; an untouched draft
\* gives base back, a modified one becomes the next state
ImmerKeepsBase(base, h, payload) == base
Immer(base, h, payload) ==
    LET draft == HandlerOnDraft(base, h, payload)
    IN  IF draft = base THEN base ELSE draft

\* a reducer given as a function: (state, action) => next state
UserReducer(st, action) ==
    IF action.type = "setX" THEN Spread(st, [k \in {"x"} |-> action.payload]) ELSE st

\* reducer[action.type] is a function
HasHandler(handlers, type) ==
    type \in DOMAIN handlers /\ handlers[type].isFunction

\* the reducer Page.createReducer returns
PageReducerResetsOnUnknown(st, action) ==
    IF reducer.kind = "object"
    THEN IF HasHandler(reducer.handlers, action.type)
         THEN IF immer
              THEN Immer(st, reducer.handlers[action.type], action.payload)
              ELSE HandlerOnState(st, reducer.handlers[action.type], action.payload)
         ELSE EmptyObject
    ELSE IF reducer.kind = "function"
         THEN UserReducer(st, action)
         ELSE st
PageReducer(st, action) ==
    IF reducer.kind = "object"
    THEN IF HasHandler(reducer.handlers, action.type)
         THEN IF immer
              THEN Immer(st, reducer.handlers[action.type], action.payload)
              ELSE HandlerOnState(st, reducer.handlers[action.type], action.payload)
         ELSE st
    ELSE IF reducer.kind = "function"
         THEN UserReducer(st, action)
         ELSE st

\* the reducer Controller.createStore hands to redux
ControllerReducer(st, action) ==
    IF reducer.kind = "function"
    THEN UserReducer(st, action)
    ELSE IF HasHandler(reducer.handlers, action.type)
         THEN IF immer
              THEN Immer(st, reducer.handlers[action.type], action.payload)
              ELSE HandlerOnState(st, reducer.handlers[action.type], action.payload)
         ELSE st

Reducer(st, action) ==
    IF kind = "page" THEN PageReducer(st, action) ELSE ControllerReducer(st, action)

\* id tells one store object from another
NoStore == [created |-> FALSE, id |-> 0, state |-> EmptyObject, listeners |-> 0, owner |-> 0]

\* Page.createStore: redux's createStore on this.state, then the bridge subscribes
PageCreateStore ==
    [created |-> TRUE, id |-> store.id + 1, state |-> PageReducer(state, InitAction),
     listeners |-> 1, owner |-> 1]

\* get store(): the store is created on first use
StoreCreatedOnEveryAccess == PageCreateStore
PageStore == IF store.created THEN store ELSE PageCreateStore

NoActions == [derived |-> FALSE, keys |-> {}]

\* get actions(): derived once, one bound dispatcher per key of the handler map
PageActions ==
    IF actions.derived
    THEN actions
    ELSE [derived |-> TRUE,
          keys |-> IF reducer.kind = "object" THEN DOMAIN reducer.handlers ELSE {}]

\* ---------------------------------------------------------------- call arguments
StringArg(t) == [typeof |-> "string", type |-> t, payload |-> 1]
ObjectArg(t, p) == [typeof |-> "object", type |-> t, payload |-> p]
Given(p) == [given |-> TRUE, value |-> p]
Missing == [given |-> FALSE, value |-> 1]

\* the two documented call shapes: dispatch(type, payload), dispatch({ type, payload })
DispatchCalls ==
    { <<StringArg(t), Given(p)>> : t \in Types, p \in Vals } \cup
    { <<ObjectArg(t, p), Missing>> : t \in Types, p \in Vals }

\* Page.dispatch: the action handed to store.dispatch. Of the two call shapes only
\* the object one has an object first and no second argument
PageAction(a1, a2) ==
    IF a1.typeof = "object" /\ ~a2.given
    THEN [type |-> a1.type, payload |-> a1.payload]
    ELSE [type |-> a1.type, payload |-> a2.value]

\* the action a bound dispatcher builds: payload => store.dispatch({ type, payload })
BoundAction(type, payload) == [type |-> type, payload |-> payload]

NoAction == [type |-> "none", payload |-> 1]
NoOp == [op |-> "none", shape |-> "none", type |-> "none", payload |-> 1,
         handed |-> NoAction, before |-> EmptyObject, partial |-> EmptyObject,
         threw |-> NoError, pushes |-> 0, callbacks |-> 0]

\* ---------------------------------------------------------------- goto
IsAbsoluteUrl(url) == Len(url) > 0 /\ url[1] = "http:"

\* prependAppPrefix: this.appPrefix is '' unless configured
PrependAppPrefix(path) == appPrefix \o path

\* goto's url handling: '' becomes '/', a relative url gets the app prefix unless raw
OriginalUrl(url) == IF url = << >> THEN <<"/">> ELSE url
GotoUrl(url, raw) ==
    IF ~IsAbsoluteUrl(OriginalUrl(url)) /\ ~raw
    THEN PrependAppPrefix(OriginalUrl(url))
    ELSE OriginalUrl(url)

NoCall == [active |-> FALSE, url |-> << >>, originalUrl |-> << >>,
           replace |-> FALSE, guarded |-> FALSE]
NoRes == [exists |-> FALSE, statusCode |-> 200, location |-> << >>,
          ended |-> FALSE, finished |-> FALSE]
FreshRes == [NoRes EXCEPT !.exists = TRUE]

NoNav == [count |-> 0, via |-> "none", href |-> << >>, as |-> << >>]

\* the client navigation goto performs for a call
Navigation(c) ==
    IF IsAbsoluteUrl(c.url)
    THEN [count |-> nav.count + 1,
          via |-> IF c.replace THEN "location.replace" ELSE "location.href",
          href |-> c.url, as |-> c.url]
    ELSE [count |-> nav.count + 1,
          via |-> IF c.replace THEN "Router.replace" ELSE "Router.push",
          href |-> c.originalUrl, as |-> c.url]

\* the guarded redirect entry point: the real redirect runs first, the throw follows
ThrowFirst(server) == "raise"
EnterRedirect(server) == IF server THEN "writeHead" ELSE "navigate"

\* where control goes when goto returns: the guarded entry point throws,
\* a direct goto call continues with the next statement
AfterGoto(guarded) == IF guarded THEN "raise" ELSE "user"

\* ---------------------------------------------------------------- resolution
NotSettled == [how |-> "none", value |-> Undefined, error |-> NoError]
NoResult == [empty |-> TRUE, initialState |-> EmptyObject, key |-> << >>,
             pathname |-> "", query |-> "", asPath |-> << >>]
Pending == [kind |-> "none", result |-> NoResult, error |-> NoError]

\* asPath = appPrefix + asPath
PathDropped(path) == appPrefix
PrefixedPath(path) == appPrefix \o path
AsPath == PrefixedPath(context.asPath)

\* handleInitialState on a value that is not a thenable
HandleIgnoresFinished(initial) ==
    [kind |-> "Resolved",
     result |-> [empty |-> FALSE, initialState |-> Spread(state, initial), key |-> AsPath,
                 pathname |-> context.pathname, query |-> context.query, asPath |-> AsPath],
     error |-> NoError]
HandleStateWins(initial) ==
    IF res.exists /\ res.finished
    THEN [kind |-> "RedirectedShortCircuit", result |-> NoResult, error |-> NoError]
    ELSE [kind |-> "Resolved",
          result |-> [empty |-> FALSE, initialState |-> Spread(initial, state), key |-> AsPath,
                      pathname |-> context.pathname, query |-> context.query, asPath |-> AsPath],
          error |-> NoError]
handleInitialState(initial) ==
    IF res.exists /\ res.finished
    THEN [kind |-> "RedirectedShortCircuit", result |-> NoResult, error |-> NoError]
    ELSE [kind |-> "Resolved",
          result |-> [empty |-> FALSE, initialState |-> Spread(state, initial), key |-> AsPath,
                      pathname |-> context.pathname, query |-> context.query, asPath |-> AsPath],
          error |-> NoError]

\* handleError: only the sentinel itself becomes an empty Result
HandleErrorNoResult(error) ==
    IF error = redirected
    THEN [kind |-> "none", result |-> NoResult, error |-> NoError]
    ELSE [kind |-> "PropagatedFailure", result |-> NoResult, error |-> error]
HandleErrorByShape(error) ==
    IF error.shape = redirected.shape
    THEN [kind |-> "RedirectedShortCircuit", result |-> NoResult, error |-> NoError]
    ELSE [kind |-> "PropagatedFailure", result |-> NoResult, error |-> error]
handleError(error) ==
    IF error = redirected
    THEN [kind |-> "RedirectedShortCircuit", result |-> NoResult, error |-> NoError]
    ELSE [kind |-> "PropagatedFailure", result |-> NoResult, error |-> error]

Contexts ==
    { [pathname |-> "/page", query |-> "q=1", asPath |-> <<"/a">>],
      [pathname |-> "/item", query |-> "q=2", asPath |-> <<"/b">>] }

\* ---------------------------------------------------------------- Init
DefaultContext == CHOOSE c \in Contexts : c.asPath = <<"/a">>
DefaultReducer == CHOOSE r \in Reducers : r.handlers = HandlersXY

\* a controller outside $init, whose context has no finished mark yet
NoCtrl == [onCreate |-> FALSE, finished |-> FALSE, preloaded |-> FALSE, inInit |-> FALSE,
           went |-> FALSE, result |-> "none"]

\* req.headers.cookie: undefined when the browser sent no cookie
NoCookie == [present |-> FALSE, value |-> ""]
Cookies == { NoCookie, [present |-> TRUE, value |-> "a=1"],
             [present |-> TRUE, value |-> "a=1; b=2"] }
\* there is no inbound request on the client
NoRequestIn == [exists |-> FALSE, cookie |-> NoCookie]
InboundRequest == [exists |-> TRUE, cookie |-> NoCookie]

\* header objects
NoHeaders == [k \in {} |-> ""]
\* no fetch call has been made
NoFetch == [sent |-> FALSE, credentials |-> "none", headers |-> NoHeaders,
            timeout |-> "unset", status |-> "none", error |-> NoError]

\* no second resolution call is in flight
NoPeer == [pc |-> "absent", context |-> DefaultContext, state |-> EmptyObject,
           store |-> NoStore, res |-> NoRes, redirectCalled |-> FALSE,
           outcome |-> Pending, steps |-> 0]

\* a page under every route configuration, or with every reducer configuration;
\* this.immer only matters to a handler map
InitPage ==
    /\ kind = "page"
    /\ isServer \in BOOLEAN
    /\ initialState = Undefined
    /\ form \in {"none", "sync", "async"}
    /\ \/ /\ appPrefix \in AppPrefixes
          /\ context \in Contexts
          /\ appPrefix = << >> => context = DefaultContext
          /\ reducer = DefaultReducer
          /\ immer = TRUE
       \/ /\ appPrefix = << >>
          /\ context = DefaultContext
          /\ reducer \in Reducers
          /\ immer \in IF reducer.kind = "object" THEN BOOLEAN ELSE {TRUE}
    /\ pc = "start"
    /\ ctrl = NoCtrl

InitController ==
    /\ kind = "controller"
    /\ isServer \in BOOLEAN
    /\ appPrefix = << >>
    /\ context = DefaultContext
    /\ initialState \in {Undefined, [k \in {"y"} |-> 1]}
    /\ form = "none"
    /\ reducer \in Reducers
    /\ immer \in IF reducer.kind = "object" THEN BOOLEAN ELSE {TRUE}
    /\ pc = "ctrl"
    /\ ctrl \in { [NoCtrl EXCEPT !.onCreate = b] : b \in BOOLEAN }

Init ==
    /\ InitPage \/ InitController
    /\ state = EmptyObject
    /\ store = NoStore
    /\ retired = NoStore
    /\ actions = NoActions
    /\ res = IF isServer THEN FreshRes ELSE NoRes
    /\ nav = NoNav
    /\ call = NoCall
    /\ redirectCalled = FALSE
    /\ raised = FALSE
    /\ settled = NotSettled
    /\ awaiting = FALSE
    /\ outcome = Pending
    /\ ended = 0
    /\ last = NoOp
    /\ steps = 0
    /\ afterRedirect = 0
    /\ peer = NoPeer
    /\ req = IF isServer THEN InboundRequest ELSE NoRequestIn
    /\ request = NoFetch

config == <<kind, isServer, appPrefix, context, initialState, form, reducer, immer, retired,
            peer, ctrl, req, request>>

\* ---------------------------------------------------------------- Page.getInitialProps
\* the page is constructed and the overrides installed; without an initializer
\* handleInitialState() builds the Result at once
GetInitialProps ==
    /\ kind = "page" /\ pc = "start"
    /\ IF form = "none"
       THEN /\ outcome' = handleInitialState(Undefined)
            /\ ended' = ended + 1
            /\ pc' = "done"
       ELSE /\ pc' = "user"
            /\ UNCHANGED <<outcome, ended>>
    /\ UNCHANGED <<config, state, store, actions, res, nav, call, redirectCalled, raised,
                   settled, awaiting, last, steps, afterRedirect>>

\* one more statement of the initializer runs
Statement ==
    /\ kind = "page" /\ pc = "user" /\ steps < MaxSteps
    /\ steps' = steps + 1
    /\ afterRedirect' = IF redirectCalled THEN afterRedirect + 1 ELSE afterRedirect

\* callback && callback(): how many times the callback runs
CallbackDropped(given) == 0
InvokeCallback(given) == IF given THEN 1 ELSE 0

\* page.setState(partial, callback) under the override: a direct merge, then the
\* callback
UserSetState(partial, callback) ==
    /\ Statement
    /\ state' = Spread(state, partial)
    /\ last' = [NoOp EXCEPT !.op = "setState", !.partial = partial,
                            !.shape = IF callback THEN "callback" ELSE "bare",
                            !.callbacks = InvokeCallback(callback)]
    /\ UNCHANGED <<config, pc, store, actions, res, nav, call, redirectCalled, raised,
                   settled, awaiting, outcome, ended>>

\* the store's listeners run: the bridge calls this.setState(store.getState())
Bridge(st, next) == IF st.listeners > 0 THEN Spread(state, next) ELSE state

\* page.dispatch(a1, a2)
UserDispatch(a1, a2) ==
    /\ Statement
    /\ LET action == PageAction(a1, a2)
           st == PageStore
           next == PageReducer(st.state, action)
       IN  /\ store' = [st EXCEPT !.state = next]
           /\ state' = Bridge(st, next)
           /\ last' = [NoOp EXCEPT !.op = "dispatch",
                                   !.shape = IF a1.typeof = "string" THEN "positional" ELSE "object",
                                   !.type = a1.type,
                                   !.payload = IF a1.typeof = "string" THEN a2.value ELSE a1.payload,
                                   !.handed = action,
                                   !.before = st.state,
                                   !.pushes = st.listeners]
    /\ UNCHANGED <<config, pc, actions, res, nav, call, redirectCalled, raised,
                   settled, awaiting, outcome, ended>>

\* page.actions[type](payload)
UserCallAction(type, payload) ==
    /\ Statement
    /\ type \in PageActions.keys
    /\ LET action == BoundAction(type, payload)
           st == PageStore
           next == PageReducer(st.state, action)
       IN  /\ store' = [st EXCEPT !.state = next]
           /\ state' = Bridge(st, next)
           /\ last' = [NoOp EXCEPT !.op = "bound", !.shape = "bound", !.type = type,
                                   !.payload = payload, !.handed = action,
                                   !.before = st.state, !.pushes = st.listeners]
    /\ actions' = PageActions
    /\ UNCHANGED <<config, pc, res, nav, call, redirectCalled, raised,
                   settled, awaiting, outcome, ended>>

\* page.goto(url, replace, raw) called directly, or through page.redirect
EnterGoto(url, replace, raw, guarded) ==
    /\ call' = [active |-> TRUE, url |-> GotoUrl(url, raw), originalUrl |-> OriginalUrl(url),
                replace |-> replace, guarded |-> guarded]
    /\ last' = NoOp
    /\ UNCHANGED <<config, state, store, actions, res, nav, raised, settled, awaiting,
                   outcome, ended>>

UserGoto(url, replace, raw) ==
    /\ Statement
    /\ EnterGoto(url, replace, raw, FALSE)
    /\ pc' = IF isServer THEN "writeHead" ELSE "navigate"
    /\ UNCHANGED redirectCalled

\* the guarded entry point installed by getInitialProps; Page.redirect is goto(url, true, raw)
UserRedirect(url, raw) ==
    /\ Statement
    /\ EnterGoto(url, TRUE, raw, TRUE)
    /\ pc' = EnterRedirect(isServer)
    /\ redirectCalled' = TRUE

\* props.res.writeHead(302, { Location: url })
WriteHead ==
    /\ pc = "writeHead"
    /\ res' = [res EXCEPT !.statusCode = 302, !.location = call.url]
    /\ pc' = "end"
    /\ UNCHANGED <<config, state, store, actions, nav, call, redirectCalled, raised,
                   settled, awaiting, outcome, ended, last, steps, afterRedirect>>

\* props.res.end()
End ==
    /\ pc = "end"
    /\ res' = [res EXCEPT !.ended = TRUE]
    /\ pc' = "finish"
    /\ UNCHANGED <<config, state, store, actions, nav, call, redirectCalled, raised,
                   settled, awaiting, outcome, ended, last, steps, afterRedirect>>

\* props.res.finished = true; return
Finish ==
    /\ pc = "finish"
    /\ res' = [res EXCEPT !.finished = TRUE]
    /\ pc' = AfterGoto(call.guarded)
    /\ call' = IF call.guarded THEN call ELSE NoCall
    /\ UNCHANGED <<config, state, store, actions, nav, redirectCalled, raised,
                   settled, awaiting, outcome, ended, last, steps, afterRedirect>>

\* the client branch: window.location or Router
Navigate ==
    /\ pc = "navigate"
    /\ nav' = Navigation(call)
    /\ pc' = AfterGoto(call.guarded)
    /\ call' = IF call.guarded THEN call ELSE NoCall
    /\ UNCHANGED <<config, state, store, actions, res, redirectCalled, raised,
                   settled, awaiting, outcome, ended, last, steps, afterRedirect>>

\* the initializer ends: a sync one returns or throws, an async one's promise settles
Settle(value, error) ==
    /\ settled' = [how |-> IF error = NoError
                           THEN (IF form = "sync" THEN "returned" ELSE "fulfilled")
                           ELSE (IF form = "sync" THEN "thrown" ELSE "rejected"),
                   value |-> value, error |-> error]
    /\ awaiting' = (form = "async")
    /\ last' = NoOp
    /\ pc' = "settled"

\* throw redirected
Raise ==
    /\ pc = "raise"
    /\ raised' = TRUE
    /\ Settle(Undefined, redirected)
    /\ UNCHANGED <<config, state, store, actions, res, nav, call, redirectCalled,
                   outcome, ended, steps, afterRedirect>>

\* throw redirected, when the initializer called the entry point inside a try
\* block of its own: its catch clause takes the sentinel and the initializer runs on
UserCatch ==
    /\ kind = "page" /\ pc = "raise"
    /\ raised' = TRUE
    /\ pc' = "user"
    /\ call' = NoCall
    /\ UNCHANGED <<config, state, store, actions, res, nav, redirectCalled,
                   settled, awaiting, outcome, ended, last, steps, afterRedirect>>

\* return partial
UserReturn(partial) ==
    /\ kind = "page" /\ pc = "user"
    /\ Settle(partial, NoError)
    /\ UNCHANGED <<config, state, store, actions, res, nav, call, redirectCalled, raised,
                   outcome, ended, steps, afterRedirect>>

\* throw error
UserThrow(error) ==
    /\ kind = "page" /\ pc = "user"
    /\ Settle(Undefined, error)
    /\ UNCHANGED <<config, state, store, actions, res, nav, call, redirectCalled, raised,
                   outcome, ended, steps, afterRedirect>>

\* await: the async initializer suspends; getInitialProps has returned its promise
UserAwait ==
    /\ Statement
    /\ form = "async"
    /\ pc' = "suspended"
    /\ awaiting' = TRUE
    /\ last' = NoOp
    /\ UNCHANGED <<config, state, store, actions, res, nav, call, redirectCalled, raised,
                   settled, outcome, ended>>

Resume ==
    /\ pc = "suspended"
    /\ pc' = "user"
    /\ UNCHANGED <<config, state, store, actions, res, nav, call, redirectCalled, raised,
                   settled, awaiting, outcome, ended, last, steps, afterRedirect>>

\* the catch block, or the callbacks of initialState.then(handleInitialState, handleError)
Complete ==
    /\ pc = "settled"
    /\ outcome' = IF settled.error = NoError
                  THEN handleInitialState(settled.value)
                  ELSE handleError(settled.error)
    /\ ended' = ended + 1
    /\ awaiting' = FALSE
    /\ pc' = "done"
    /\ UNCHANGED <<config, state, store, actions, res, nav, call, redirectCalled, raised,
                   settled, last, steps, afterRedirect>>

\* ---------------------------------------------------------------- Controller
pageOnly == <<form, pc, state, res, nav, call, redirectCalled, raised, settled, awaiting,
              outcome, ended, afterRedirect>>

Call ==
    /\ kind = "controller" /\ pc = "ctrl" /\ steps < MaxSteps
    /\ steps' = steps + 1

\* Controller.createStore registers one bound dispatcher per key of the handlers
ControllerActions ==
    [derived |-> TRUE, keys |-> actions.keys \cup DOMAIN reducer.handlers]

\* url.format on a string parses it and formats it again: a host without a path
\* gets the path '/'
Format(url) == IF url = BareUrl THEN AbsUrl ELSE url

\* go(url, replace) as user code calls it
CtrlGoCalls ==
    { [url |-> RelUrl, replace |-> FALSE],
      [url |-> AbsUrl, replace |-> TRUE],
      [url |-> BareUrl, replace |-> FALSE] }

\* $init's test after onCreate: the response is marked on the server, the context
\* on the client
Redirected(c) == (isServer /\ res.finished) \/ (~isServer /\ c.finished)
InitResult(c) == IF Redirected(c) THEN "false" ELSE "true"

\* $init(preloadState): the store is created on { ...initialState, ...preloadState }.
\* typeof null is 'object', so an unset reducer reaches Object.keys(null), which
\* throws before any store exists. With preloadState it returns true; otherwise
\* onCreate runs when the controller has one
CtrlInit(preloadState) ==
    /\ Call
    /\ LET finalInitialState == Spread(initialState, preloadState)
           began == [ctrl EXCEPT !.preloaded = (preloadState # Undefined), !.went = FALSE,
                                 !.result = "none"]
       IN  IF reducer.kind = "null"
           THEN /\ last' = [NoOp EXCEPT !.op = "$init", !.threw = TypeError]
                /\ ctrl' = [began EXCEPT !.result = "rejected"]
                /\ UNCHANGED <<store, retired, actions, pc>>
           ELSE /\ store' = [created |-> TRUE, id |-> store.id + 1,
                             state |-> ControllerReducer(finalInitialState, InitAction),
                             listeners |-> 0, owner |-> 1]
                /\ retired' = store
                /\ actions' = IF reducer.kind = "object" THEN ControllerActions ELSE actions
                /\ last' = [NoOp EXCEPT !.op = "$init", !.before = finalInitialState]
                /\ IF preloadState # Undefined
                   THEN ctrl' = [began EXCEPT !.result = "true"] /\ UNCHANGED pc
                   ELSE IF ctrl.onCreate
                        THEN ctrl' = [began EXCEPT !.inInit = TRUE] /\ pc' = "onCreate"
                        ELSE ctrl' = [began EXCEPT !.result = InitResult(ctrl)]
                             /\ UNCHANGED pc
    /\ UNCHANGED <<kind, isServer, appPrefix, context, initialState, form, reducer, immer,
                   state, res, nav, call, redirectCalled, raised, settled, awaiting, outcome,
                   ended, afterRedirect, peer, req, request>>

\* onCreate returns: $init goes on to its test
OnCreateReturn ==
    /\ kind = "controller" /\ pc = "onCreate"
    /\ pc' = "ctrl"
    /\ ctrl' = [ctrl EXCEPT !.inInit = FALSE, !.result = InitResult(ctrl)]
    /\ last' = [NoOp EXCEPT !.op = "$init"]
    /\ UNCHANGED <<kind, isServer, appPrefix, context, initialState, form, reducer, immer,
                   state, store, retired, actions, res, nav, call, redirectCalled, raised,
                   settled, awaiting, outcome, ended, steps, afterRedirect, peer, req,
                   request>>

\* controller.go(url, replace), called by onCreate or by later code. On the client
\* the whole call is here; on the server it goes on with the response
CtrlGo(url, replace) ==
    /\ kind = "controller" /\ pc \in {"ctrl", "onCreate"} /\ steps < MaxSteps
    /\ steps' = steps + 1
    /\ LET target == Format(url)
           entered == [ctrl EXCEPT !.went = @ \/ ctrl.inInit]
       IN  /\ call' = [active |-> TRUE, url |-> target, originalUrl |-> url,
                       replace |-> replace, guarded |-> FALSE]
           /\ IF isServer
              THEN /\ pc' = "ctrlWriteHead"
                   /\ ctrl' = entered
                   /\ last' = NoOp
                   /\ UNCHANGED nav
              ELSE /\ UNCHANGED pc
                   /\ last' = [NoOp EXCEPT !.op = "go"]
                   /\ IF IsAbsoluteUrl(target)
                      THEN /\ nav' = [count |-> nav.count + 1,
                                      via |-> IF replace THEN "location.replace"
                                                         ELSE "location.href",
                                      href |-> target, as |-> target]
                           /\ ctrl' = entered
                      ELSE /\ nav' = [count |-> nav.count + 1,
                                      via |-> IF replace THEN "Router.replace"
                                                         ELSE "Router.push",
                                      href |-> target, as |-> target]
                           /\ ctrl' = [entered EXCEPT !.finished = TRUE]
    /\ UNCHANGED <<kind, isServer, appPrefix, context, initialState, form, reducer, immer,
                   state, store, retired, actions, res, redirectCalled, raised, settled,
                   awaiting, outcome, ended, afterRedirect, peer, req, request>>

\* context.res.writeHead(302, { Location: url })
CtrlWriteHead ==
    /\ pc = "ctrlWriteHead"
    /\ res' = [res EXCEPT !.statusCode = 302, !.location = call.url]
    /\ pc' = "ctrlEnd"
    /\ UNCHANGED <<config, state, store, actions, nav, call, redirectCalled, raised,
                   settled, awaiting, outcome, ended, last, steps, afterRedirect>>

\* context.res.end()
CtrlEnd ==
    /\ pc = "ctrlEnd"
    /\ res' = [res EXCEPT !.ended = TRUE]
    /\ pc' = "ctrlFinish"
    /\ UNCHANGED <<config, state, store, actions, nav, call, redirectCalled, raised,
                   settled, awaiting, outcome, ended, last, steps, afterRedirect>>

\* contex.res.finished = true: no `contex` is declared, so evaluating it throws a
\* ReferenceError out of go; inside onCreate the error rejects $init's promise
CtrlMarkFinished ==
    /\ pc = "ctrlFinish"
    /\ pc' = "ctrl"
    /\ last' = [NoOp EXCEPT !.op = "go", !.threw = ReferenceError]
    /\ ctrl' = IF ctrl.inInit
               THEN [ctrl EXCEPT !.inInit = FALSE, !.result = "rejected"]
               ELSE ctrl
    /\ UNCHANGED <<kind, isServer, appPrefix, context, initialState, form, reducer, immer,
                   state, store, retired, actions, res, nav, call, redirectCalled, raised,
                   settled, awaiting, outcome, ended, steps, afterRedirect, peer, req,
                   request>>

\* redux's dispatch: an action that is not a plain object is refused
ReduxDispatch(a1) ==
    IF a1.typeof = "object"
    THEN LET action == [type |-> a1.type, payload |-> a1.payload]
         IN  [state |-> ControllerReducer(store.state, action), handed |-> action,
              threw |-> NoError]
    ELSE [state |-> store.state, handed |-> NoAction, threw |-> ReduxError]

\* Controller.dispatch(...args): this.store.dispatch(...args)
CtrlDispatch(a1, a2) ==
    /\ Call
    /\ LET r == IF store.created
                THEN ReduxDispatch(a1)
                ELSE [state |-> store.state, handed |-> NoAction, threw |-> TypeError]
       IN  /\ store' = [store EXCEPT !.state = r.state]
           /\ last' = [NoOp EXCEPT !.op = "dispatch",
                                   !.shape = IF a1.typeof = "string" THEN "positional" ELSE "object",
                                   !.type = a1.type,
                                   !.payload = IF a1.typeof = "string" THEN a2.value ELSE a1.payload,
                                   !.handed = r.handed,
                                   !.before = store.state,
                                   !.threw = r.threw]
    /\ UNCHANGED <<kind, isServer, appPrefix, context, initialState, reducer, immer, pageOnly, peer,
                   ctrl, req, request, retired, actions>>

\* the store a bound dispatcher reaches: this.store, read when it is called
StaleBoundStore(current, previous) == IF previous.created THEN previous ELSE current
BoundStore(current, previous) == current

\* controller.actions[type](payload): this.store.dispatch({ type, payload })
CtrlCallAction(type, payload) ==
    /\ Call
    /\ type \in actions.keys
    /\ LET action == BoundAction(type, payload)
           target == BoundStore(store, retired)
           next == [target EXCEPT !.state = ControllerReducer(target.state, action)]
       IN  /\ IF target.id = store.id
              THEN store' = next /\ UNCHANGED retired
              ELSE retired' = next /\ UNCHANGED store
           /\ last' = [NoOp EXCEPT !.op = "bound", !.shape = "bound", !.type = type,
                                   !.payload = payload, !.handed = action,
                                   !.before = store.state]
    /\ UNCHANGED <<kind, isServer, appPrefix, context, initialState, reducer, immer, pageOnly, peer,
                   ctrl, req, request, actions>>

\* ---------------------------------------------------------------- a second resolution
\* Page.getInitialProps called again while the first call is in flight: `new this()`
\* makes another instance, with its own state, its own $store and, on the server,
\* the response of its own request. The class (reducer, immer, initializer form),
\* the module's sentinel and, on the client, the Router are the same for both.
PeerAsPath == PrefixedPath(peer.context.asPath)

\* handleInitialState of the second call: its closure holds its own page and context
PeerSharesInstance(initial) == handleInitialState(initial)
PeerHandleInitialState(initial) ==
    IF peer.res.exists /\ peer.res.finished
    THEN [kind |-> "RedirectedShortCircuit", result |-> NoResult, error |-> NoError]
    ELSE [kind |-> "Resolved",
          result |-> [empty |-> FALSE, initialState |-> Spread(peer.state, initial),
                      key |-> PeerAsPath, pathname |-> peer.context.pathname,
                      query |-> peer.context.query, asPath |-> PeerAsPath],
          error |-> NoError]

\* get store() on the second instance: this.$store is a field of the instance
PeerStore ==
    IF peer.store.created
    THEN peer.store
    ELSE [created |-> TRUE, id |-> peer.store.id + 1,
          state |-> PageReducer(peer.state, InitAction), listeners |-> 1, owner |-> 2]

PeerStatement ==
    /\ kind = "page" /\ peer.pc = "user" /\ peer.steps < MaxPeerSteps

PeerGetInitialProps ==
    /\ kind = "page" /\ peer.pc = "start"
    /\ peer' = [peer EXCEPT !.pc = "user"]
    /\ UNCHANGED <<kind, isServer, appPrefix, context, initialState, form, reducer, immer,
                   retired, pageOnly, store, actions, last, steps, ctrl, req, request>>

\* page.setState(partial) on the second instance
PeerSetState(partial) ==
    /\ PeerStatement
    /\ peer' = [peer EXCEPT !.state = Spread(peer.state, partial), !.steps = @ + 1]
    /\ UNCHANGED <<kind, isServer, appPrefix, context, initialState, form, reducer, immer,
                   retired, pageOnly, store, actions, last, steps, ctrl, req, request>>

\* page.dispatch(a1, a2) on the second instance
PeerDispatch(a1, a2) ==
    /\ PeerStatement
    /\ LET st == PeerStore
           next == PageReducer(st.state, PageAction(a1, a2))
       IN  peer' = [peer EXCEPT !.store = [st EXCEPT !.state = next],
                                !.state = IF st.listeners > 0
                                          THEN Spread(peer.state, next) ELSE peer.state,
                                !.steps = @ + 1]
    /\ UNCHANGED <<kind, isServer, appPrefix, context, initialState, form, reducer, immer,
                   retired, pageOnly, store, actions, last, steps, ctrl, req, request>>

\* page.redirect(url) on the second instance: goto runs to its end, the throw follows
PeerRedirect(url) ==
    /\ PeerStatement
    /\ LET c == [active |-> TRUE, url |-> GotoUrl(url, FALSE), originalUrl |-> OriginalUrl(url),
                 replace |-> TRUE, guarded |-> TRUE]
       IN  IF isServer
           THEN /\ peer' = [peer EXCEPT !.res = [exists |-> TRUE, statusCode |-> 302,
                                                 location |-> c.url, ended |-> TRUE,
                                                 finished |-> TRUE],
                                        !.redirectCalled = TRUE, !.pc = "raise",
                                        !.steps = @ + 1]
                /\ UNCHANGED nav
           ELSE /\ peer' = [peer EXCEPT !.redirectCalled = TRUE, !.pc = "raise",
                                        !.steps = @ + 1]
                /\ nav' = Navigation(c)
    /\ UNCHANGED <<kind, isServer, appPrefix, context, initialState, form, reducer, immer,
                   retired, pc, state, res, call, redirectCalled, raised, settled, awaiting,
                   outcome, ended, afterRedirect, store, actions, last, steps, ctrl, req,
                   request>>

\* the sentinel reaches the second call's handleError
PeerRaise ==
    /\ peer.pc = "raise"
    /\ peer' = [peer EXCEPT !.pc = "done", !.outcome = handleError(redirected)]
    /\ UNCHANGED <<kind, isServer, appPrefix, context, initialState, form, reducer, immer,
                   retired, pageOnly, store, actions, last, steps, ctrl, req, request>>

\* the second call's initializer returns
PeerReturn(partial) ==
    /\ kind = "page" /\ peer.pc = "user"
    /\ peer' = [peer EXCEPT !.pc = "done", !.outcome = PeerHandleInitialState(partial)]
    /\ UNCHANGED <<kind, isServer, appPrefix, context, initialState, form, reducer, immer,
                   retired, pageOnly, store, actions, last, steps, ctrl, req, request>>

\* ---------------------------------------------------------------- fetch
\* the options a caller passes: credentials, headers and timeout given or left out
CallerHeaders == { NoHeaders, [k \in {"Cookie"} |-> "own=1"], [k \in {"X-Id"} |-> "7"] }
FetchOptions ==
    [credentials : {"unset", "include", "omit"}, headers : CallerHeaders,
     timeout : {"unset", "number"}]

\* { method: 'GET', credentials: 'include', ...options }
FinalCredentials(o) == IF o.credentials = "unset" THEN "include" ELSE o.credentials

\* props.req.headers.cookie || ''
CookieHeader == IF req.cookie.present THEN req.cookie.value ELSE ""

\* Page.fetch: on the server with credentials include the headers become
\* { ...options.headers, Cookie }
CallerCookieWins(o) ==
    IF isServer /\ FinalCredentials(o) = "include"
    THEN Spread([k \in {"Cookie"} |-> CookieHeader], o.headers)
    ELSE o.headers
PageFinalHeaders(o) ==
    IF isServer /\ FinalCredentials(o) = "include"
    THEN Spread(o.headers, [k \in {"Cookie"} |-> CookieHeader])
    ELSE o.headers

\* Controller.fetch: { 'Content-Type': 'application/json', ...options.headers },
\* then headers['Cookie'] is set on the server with credentials include
CtrlFinalHeaders(o) ==
    LET headers == Spread([k \in {"Content-Type"} |-> "application/json"], o.headers)
    IN  IF isServer /\ FinalCredentials(o) = "include"
        THEN Spread(headers, [k \in {"Cookie"} |-> CookieHeader])
        ELSE headers

\* fetch(api, options): the transport is called with the final options; after that
\* a numeric options.timeout reaches timeoutReject(fetchData, options.timeout), a
\* name neither file imports or declares, so the call throws a ReferenceError
Fetch(o) ==
    /\ ~request.sent
    /\ request' = [sent |-> TRUE,
                   credentials |-> FinalCredentials(o),
                   headers |-> IF kind = "page" THEN PageFinalHeaders(o)
                                                ELSE CtrlFinalHeaders(o),
                   timeout |-> o.timeout,
                   status |-> IF o.timeout = "number" THEN "threw" ELSE "pending",
                   error |-> IF o.timeout = "number" THEN ReferenceError ELSE NoError]
    /\ UNCHANGED <<kind, isServer, appPrefix, context, initialState, form, reducer, immer,
                   retired, pageOnly, store, actions, last, steps, peer, ctrl, req>>

\* the transport's promise settles, and the request's promise with it
TransportFulfils ==
    /\ request.status = "pending"
    /\ request' = [request EXCEPT !.status = "fulfilled"]
    /\ UNCHANGED <<kind, isServer, appPrefix, context, initialState, form, reducer, immer,
                   retired, pageOnly, store, actions, last, steps, peer, ctrl, req>>

TransportRejects ==
    /\ request.status = "pending"
    /\ request' = [request EXCEPT !.status = "rejected", !.error = TransportError]
    /\ UNCHANGED <<kind, isServer, appPrefix, context, initialState, form, reducer, immer,
                   retired, pageOnly, store, actions, last, steps, peer, ctrl, req>>

\* ---------------------------------------------------------------- specification
PreloadStates == {Undefined, [k \in {"x"} |-> 2]}

\* what a resolution call and its initializer do
PageNext ==
    \/ GetInitialProps
    \/ \E c \in SetStateCalls : UserSetState(c.partial, c.callback)
    \/ \E c \in DispatchCalls : UserDispatch(c[1], c[2])
    \/ \E t \in Types, p \in Vals : UserCallAction(t, p)
    \/ \E c \in GotoCalls : UserGoto(c.url, c.replace, c.raw)
    \/ \E c \in RedirectCalls : UserRedirect(c.url, c.raw)
    \/ WriteHead
    \/ End
    \/ Finish
    \/ Navigate
    \/ Raise
    \/ UserCatch
    \/ \E partial \in Partials : UserReturn(partial)
    \/ \E error \in UserThrowables : UserThrow(error)
    \/ UserAwait
    \/ Resume
    \/ Complete

\* what a controller's lifecycle and the code using it do
ControllerNext ==
    \/ \E preloadState \in PreloadStates : CtrlInit(preloadState)
    \/ OnCreateReturn
    \/ \E c \in CtrlGoCalls : CtrlGo(c.url, c.replace)
    \/ CtrlWriteHead
    \/ CtrlEnd
    \/ CtrlMarkFinished
    \/ \E c \in DispatchCalls : CtrlDispatch(c[1], c[2])
    \/ \E t \in Types, p \in Vals : CtrlCallAction(t, p)

Next == PageNext \/ ControllerNext

Spec == Init /\ [][Next]_vars

\* an instance on which nothing has run yet
Constructed ==
    /\ state = EmptyObject
    /\ store = NoStore
    /\ retired = NoStore
    /\ actions = NoActions
    /\ res = IF isServer THEN FreshRes ELSE NoRes
    /\ nav = NoNav
    /\ call = NoCall
    /\ redirectCalled = FALSE
    /\ raised = FALSE
    /\ settled = NotSettled
    /\ awaiting = FALSE
    /\ outcome = Pending
    /\ ended = 0
    /\ last = NoOp
    /\ steps = 0
    /\ afterRedirect = 0

\* two resolution calls of one page class in flight together, for the same route or
\* for two routes; the initializer is async (only an await lets the calls interleave)
\* and what it does is drawn from a few statements
PairPartials == { [k \in {"x"} |-> 1], [k \in {"y"} |-> 2] }
PairDispatchCalls == { <<StringArg("setX"), Given(2)>>, <<ObjectArg("other", 1), Missing>> }

PairInit ==
    /\ kind = "page"
    /\ isServer \in BOOLEAN
    /\ appPrefix \in AppPrefixes
    /\ context = DefaultContext
    /\ initialState = Undefined
    /\ form = "async"
    /\ reducer = DefaultReducer
    /\ immer = TRUE
    /\ pc = "start"
    /\ Constructed
    /\ ctrl = NoCtrl
    /\ req = IF isServer THEN InboundRequest ELSE NoRequestIn
    /\ request = NoFetch
    /\ peer \in { [NoPeer EXCEPT !.pc = "start", !.context = c,
                                 !.res = IF isServer THEN FreshRes ELSE NoRes] :
                  c \in Contexts }

PairNext ==
    \/ GetInitialProps
    \/ \E partial \in PairPartials : UserSetState(partial, FALSE)
    \/ \E c \in PairDispatchCalls : UserDispatch(c[1], c[2])
    \/ UserCallAction("setY", 1)
    \/ UserRedirect(RelUrl, FALSE)
    \/ WriteHead
    \/ End
    \/ Finish
    \/ Navigate
    \/ Raise
    \/ \E partial \in PairPartials : UserReturn(partial)
    \/ UserAwait
    \/ Resume
    \/ Complete
    \/ PeerGetInitialProps
    \/ \E partial \in PairPartials : PeerSetState(partial)
    \/ \E c \in PairDispatchCalls : PeerDispatch(c[1], c[2])
    \/ PeerRedirect(RelUrl)
    \/ PeerRaise
    \/ \E partial \in PairPartials : PeerReturn(partial)

PairSpec == PairInit /\ [][PairNext]_vars

\* a page or a controller makes one request through fetch; on the server the
\* inbound request came with a cookie or without one
FetchInit ==
    /\ kind \in {"page", "controller"}
    /\ isServer \in BOOLEAN
    /\ appPrefix = << >>
    /\ context = DefaultContext
    /\ initialState = Undefined
    /\ form = "none"
    /\ reducer = DefaultReducer
    /\ immer = TRUE
    /\ pc = IF kind = "page" THEN "done" ELSE "ctrl"
    /\ Constructed
    /\ ctrl = NoCtrl
    /\ peer = NoPeer
    /\ req \in IF isServer THEN { [exists |-> TRUE, cookie |-> c] : c \in Cookies }
                           ELSE { NoRequestIn }
    /\ request = NoFetch

FetchNext ==
    \/ \E o \in FetchOptions : Fetch(o)
    \/ TransportFulfils
    \/ TransportRejects

FetchSpec == FetchInit /\ [][FetchNext]_vars

\* resolutions of a page with the default reducer, under every route configuration:
\* the callbacks a settled promise has queued run, and synchronous code runs on
FairInit == Init /\ kind = "page" /\ reducer = DefaultReducer /\ immer
FairSpec == FairInit /\ [][PageNext]_vars
                     /\ WF_vars(Complete) /\ WF_vars(Raise \/ UserCatch) /\ WF_vars(WriteHead)
                     /\ WF_vars(End) /\ WF_vars(Finish) /\ WF_vars(Navigate)

\* ---------------------------------------------------------------- claims
Terminals == {"Resolved", "RedirectedShortCircuit", "PropagatedFailure"}
InGoto == {"writeHead", "end", "finish", "navigate"}

\* C1: once the initializer has called the guarded redirect entry point, in the sync
\* and in the async form, no further statement of it runs, and the resolution ends
\* with the empty Result: nothing the initializer set or returned is in it.
RedirectShortCircuit ==
    /\ afterRedirect = 0
    /\ redirectCalled => pc \in InGoto \cup {"raise", "settled", "done"}
    /\ (redirectCalled /\ pc = "done") =>
          /\ outcome.kind = "RedirectedShortCircuit"
          /\ outcome.result.empty
          /\ outcome.result.initialState = EmptyObject
          /\ outcome.error = NoError

\* an async initializer that set state, then redirected: the resolution is over
RedirectShortCircuitWitness ==
    /\ pc = "done" /\ redirectCalled /\ raised
    /\ form = "async"
    /\ state # EmptyObject
    /\ steps >= 2

\* C2: a failure of the initializer (thrown, or a rejection) with any value other than
\* the sentinel itself, an empty object included, is the failure of the resolution,
\* with the same value; only the sentinel itself gives the empty successful Result.
FailurePropagation ==
    (pc = "done" /\ settled.how \in {"thrown", "rejected"}) =>
        IF settled.error.id = redirected.id
        THEN outcome.kind = "RedirectedShortCircuit" /\ outcome.result.empty
             /\ outcome.error = NoError
        ELSE outcome.kind = "PropagatedFailure" /\ outcome.error = settled.error

\* a rejection with an empty object that is not the sentinel has propagated
FailurePropagationWitness ==
    /\ pc = "done"
    /\ settled.how = "rejected"
    /\ settled.error = OtherEmpty
    /\ outcome.kind = "PropagatedFailure"

\* the redirect side effect of the guarded call in progress has been applied
SideEffectApplied ==
    IF isServer
    THEN /\ res.statusCode = 302
         /\ res.location = call.url
         /\ res.ended
         /\ res.finished
    ELSE /\ nav.count > 0
         /\ nav.as = call.url
         /\ nav.via \in {"location.replace", "Router.replace"}

\* C3: on the server and on the client, whenever the sentinel is about to be raised or
\* has been raised, the redirect side effect of that call is complete.
RedirectOrdering ==
    (pc = "raise" \/ (raised /\ settled.error = redirected)) =>
        (call.guarded /\ SideEffectApplied)

\* the sentinel has been raised on the server after a redirect to a prefixed url
RedirectOrderingWitness ==
    /\ raised
    /\ isServer
    /\ res.location = <<"/app", "/login">>
    /\ pc = "settled"

\* C4: when the initializer completes normally and the response is marked finished,
\* the Result is empty: neither the returned partial state nor the working state is
\* in it, although no sentinel was raised.
FinishedResponseCheck ==
    (pc = "done" /\ settled.how \in {"returned", "fulfilled"} /\ res.exists /\ res.finished) =>
        /\ outcome.kind = "RedirectedShortCircuit"
        /\ outcome.result.empty
        /\ outcome.result.initialState = EmptyObject

\* a direct goto finished the response; the initializer then returned a partial state
FinishedResponseCheckWitness ==
    /\ pc = "done"
    /\ ~raised /\ ~redirectCalled
    /\ res.finished
    /\ settled.how = "fulfilled"
    /\ settled.value # Undefined
    /\ state # EmptyObject

\* C5: a Resolved resolution's initialState has, for every field, the value of the
\* resolved partial state when the field is there and the working state's value
\* otherwise; a direct setState is in the working state as soon as it is made; key is
\* the prefixed path, pathname and query are the context's.
MergeOnCompletion ==
    /\ (last.op = "setState") =>
          \A k \in DOMAIN last.partial : k \in DOMAIN state /\ state[k] = last.partial[k]
    /\ (pc = "done" /\ outcome.kind = "Resolved") =>
          LET partial == IF settled.value = Undefined THEN EmptyObject ELSE settled.value
              result == outcome.result
          IN  /\ ~result.empty
              /\ DOMAIN result.initialState = (DOMAIN partial) \cup (DOMAIN state)
              /\ \A k \in DOMAIN result.initialState :
                    result.initialState[k] = IF k \in DOMAIN partial THEN partial[k] ELSE state[k]
              /\ result.key = result.asPath
              /\ result.asPath = appPrefix \o context.asPath
              /\ result.pathname = context.pathname
              /\ result.query = context.query

\* an async initializer set x and y, then resolved with another x: x is the resolved
\* one, y the working state's
MergeOnCompletionWitness ==
    /\ pc = "done" /\ outcome.kind = "Resolved"
    /\ form = "async"
    /\ settled.value = [k \in {"x"} |-> 2]
    /\ state = [k \in {"x", "y"} |-> 1]
    /\ outcome.result.initialState = [k \in {"x", "y"} |-> IF k = "x" THEN 2 ELSE 1]
    /\ appPrefix = <<"/app">>

\* C6: a resolution whose initializer has settled reaches a terminal state, and only
\* one: Resolved with a non-empty Result, RedirectedShortCircuit with the empty Result,
\* or PropagatedFailure with the error; it is not left awaiting the initializer, and
\* what it reached does not change afterwards.
TerminalStates ==
    /\ [](ended <= 1)
    /\ [](pc = "done" <=> outcome.kind \in Terminals)
    /\ [](pc = "done" => (ended = 1 /\ ~awaiting))
    /\ [](outcome.kind = "Resolved" <=> ~outcome.result.empty)
    /\ [](outcome.kind = "PropagatedFailure" <=> outcome.error # NoError)
    /\ [][pc = "done" => (pc' = "done" /\ outcome' = outcome)]_vars
    /\ ((settled.how # "none") ~> (pc = "done" /\ ~awaiting))

\* an async initializer ran statements and resolved; the resolution is Resolved
TerminalStatesWitness ==
    /\ pc = "done" /\ ended = 1
    /\ settled.how = "fulfilled"
    /\ outcome.kind = "Resolved"
    /\ steps > 0

\* the action a dispatch or a bound dispatcher asked for
Asked == [type |-> last.type, payload |-> last.payload]
Dispatched == last.op \in {"dispatch", "bound"} /\ last.threw = NoError /\ store.created

DraftPlainEquivalence ==
    (/\ Dispatched
     /\ reducer.kind = "object"
     /\ last.handed.type \in DOMAIN reducer.handlers
     /\ reducer.handlers[last.handed.type].isFunction)
    => LET f == reducer.handlers[last.handed.type].sets
       IN  /\ f \in DOMAIN store.state
           /\ store.state[f] = last.handed.payload
           /\ DOMAIN store.state = (DOMAIN last.before) \cup {f}
           /\ \A k \in (DOMAIN last.before) \ {f} : store.state[k] = last.before[k]

\* a draft-mode handler set x in a store that held another x and a y
DraftPlainEquivalenceWitness ==
    /\ immer
    /\ Dispatched
    /\ last.handed.type = "setX"
    /\ "y" \in DOMAIN last.before
    /\ "x" \in DOMAIN last.before
    /\ store.state["x"] # last.before["x"]

\* C9: dispatch(type, payload) and dispatch({ type, payload }) are both accepted, on a
\* page and on a controller that has its store, and both hand the reducer the action
\* { type, payload }, so that the store's state is the reducer's result for it.
DispatchNormalization ==
    (last.op = "dispatch" /\ store.created) =>
        /\ last.threw = NoError
        /\ last.handed = Asked
        /\ store.state = Reducer(last.before, Asked)

\* C10: once derived from a handler map, the actions mapping has exactly the keys of
\* the map; actions[k](p) hands the reducer { type: k, payload: p } and the instance's
\* current store gets the reducer's result for it, as dispatch({ type: k, payload: p })
\* does, also after $init has replaced the store.
BoundDispatchers ==
    /\ (actions.derived /\ reducer.kind = "object") => actions.keys = DOMAIN reducer.handlers
    /\ (last.op = "bound") =>
          /\ last.threw = NoError
          /\ last.type \in DOMAIN reducer.handlers
          /\ last.handed = Asked
          /\ store.created
          /\ store.state = Reducer(last.before, Asked)

\* a bound dispatcher changed the state of a controller's second store
BoundDispatchersWitness ==
    /\ kind = "controller"
    /\ last.op = "bound"
    /\ store.id = 2 /\ retired.created
    /\ store.state # last.before

\* C11: whatever a page instance's store, actions and dispatch are used for, it has
\* one store, the first it created, with exactly one subscriber, the bridge; a dispatch
\* pushes the store's new snapshot into the working state once; and two instances
\* never hold the same store.
OneStoreOneBridge ==
    /\ store.created => store.id = 1 /\ store.listeners = 1 /\ store.owner = 1
    /\ peer.store.created =>
          peer.store.id = 1 /\ peer.store.listeners = 1 /\ peer.store.owner = 2
    /\ (store.created /\ peer.store.created) =>
          <<store.owner, store.id>> # <<peer.store.owner, peer.store.id>>
    /\ actions.derived => store.created
    /\ last.op \in {"dispatch", "bound"} =>
          /\ last.pushes = 1
          /\ \A k \in DOMAIN store.state : k \in DOMAIN state /\ state[k] = store.state[k]
OneStoreOneBridgeWitness ==
    /\ store.created /\ peer.store.created /\ actions.derived
    /\ last.op = "dispatch" /\ last.before # EmptyObject
    /\ store.state # last.before

\* C12: on the server a redirect call, Page.goto, Page.redirect or Controller.go,
\* writes 302 with Location equal to the target url, then ends the response, then
\* marks it finished, and returns without raising an error: once the call is over
\* the response is marked finished and nothing was thrown out of it.
ServerRedirectWireEffect ==
    /\ res.ended => res.statusCode = 302
    /\ res.finished => res.ended
    /\ (res.ended /\ pc \notin {"finish", "ctrlFinish"}) => res.finished
    /\ last.op = "go" => last.threw = NoError
    /\ (isServer /\ pc \in {"end", "ctrlEnd"}) => res.location = call.url

\* C13: a request made through fetch on the server with credentials include, by
\* default or given by the caller, reaches the transport with a Cookie header that
\* is the inbound request's cookie header, character for character, whatever
\* headers the caller passed.
CookiePropagation ==
    (request.sent /\ isServer /\ request.credentials = "include" /\ req.cookie.present) =>
        /\ "Cookie" \in DOMAIN request.headers
        /\ request.headers["Cookie"] = req.cookie.value
CookiePropagationWitness ==
    /\ request.sent /\ isServer /\ request.credentials = "include" /\ req.cookie.present
    /\ kind = "page"
    /\ request.headers["Cookie"] = "a=1"

\* C14: a request made with a numeric options.timeout ends in one of two ways only:
\* with what the transport settled with, when the transport is first, or rejected
\* with a TimeoutError, which no transport failure is; it never fails with any
\* other error.
TimeoutRace ==
    request.timeout = "number" =>
        /\ request.status \in {"pending", "fulfilled", "rejected"}
        /\ request.status = "rejected" => request.error \in {TimeoutError, TransportError}
        /\ TimeoutError # TransportError

\* C15: two Results made under the same configuration have the same key only if
\* their routes' matched paths are the same: the Results for "/a" and "/b" have
\* different keys.
KeyInjectivity ==
    (pc = "done" /\ peer.pc = "done" /\ ~outcome.result.empty /\ ~peer.outcome.result.empty) =>
        /\ outcome.result.key = peer.outcome.result.key =>
              context.asPath = peer.context.asPath
        /\ (context.asPath = <<"/a">> /\ peer.context.asPath = <<"/b">>) =>
              outcome.result.key # peer.outcome.result.key
KeyInjectivityWitness ==
    /\ pc = "done" /\ peer.pc = "done"
    /\ ~outcome.result.empty /\ ~peer.outcome.result.empty
    /\ appPrefix # << >>
    /\ context.asPath = <<"/a">> /\ peer.context.asPath = <<"/b">>
    /\ outcome.result.key # peer.outcome.result.key

\* C16: during resolution setState(partial, callback) replaces the working state
\* by the old state overridden by partial, then runs the callback once if one was
\* given, and does nothing else: no action is dispatched, no subscriber runs, and
\* the store, its state included, is what it was.
DirectMergeSetter ==
    [][ (steps' = steps + 1 /\ last'.op = "setState") =>
          /\ state' = Spread(state, last'.partial)
          /\ last'.callbacks = (IF last'.shape = "callback" THEN 1 ELSE 0)
          /\ last'.pushes = 0
          /\ last'.handed = NoAction
          /\ UNCHANGED <<store, actions, pc, outcome, settled, res, nav>> ]_vars
DirectMergeSetterWitness ==
    /\ last.op = "setState" /\ last.shape = "callback" /\ last.callbacks = 1
    /\ store.created /\ store.state # state
    /\ state = [k \in {"x", "y"} |-> IF k = "x" THEN 2 ELSE 1]

\* C17: two resolution calls in flight together do not touch each other: a step of
\* one leaves the other's instance, working state, store, response and outcome
\* alone, and a call whose own initializer did not redirect ends with a non-empty
\* Result built from its own working state and route, whether or not the other
\* call redirected. Both compare with the same sentinel.
IsolatedOutcomes ==
    /\ (pc = "done" /\ ~redirectCalled) =>
          /\ outcome.kind = "Resolved" /\ ~outcome.result.empty
          /\ outcome.result.initialState = Spread(state, settled.value)
          /\ outcome.result.pathname = context.pathname
    /\ (peer.pc = "done" /\ ~peer.redirectCalled) =>
          /\ peer.outcome.kind = "Resolved" /\ ~peer.outcome.result.empty
          /\ \A k \in DOMAIN peer.state :
                k \in DOMAIN peer.outcome.result.initialState
          /\ \A k \in DOMAIN peer.outcome.result.initialState :
                k \in DOMAIN peer.state
                \/ \E partial \in PairPartials : k \in DOMAIN partial
          /\ peer.outcome.result.pathname = peer.context.pathname
    /\ (peer.pc = "done" /\ peer.redirectCalled) =>
          peer.outcome.kind = "RedirectedShortCircuit"
    /\ (pc = "done" /\ redirectCalled) => outcome.kind = "RedirectedShortCircuit"
IsolatedSteps ==
    /\ peer' # peer => UNCHANGED <<state, store, res, outcome, settled, redirectCalled, pc>>
    /\ ~UNCHANGED <<state, store, res, outcome, settled, redirectCalled, pc>> => peer' = peer
ConcurrentIsolation == []IsolatedOutcomes /\ [][IsolatedSteps]_vars
ConcurrentIsolationWitness ==
    /\ isServer
    /\ pc = "done" /\ redirectCalled /\ res.finished
    /\ peer.pc = "done" /\ ~peer.redirectCalled /\ ~peer.res.finished
    /\ peer.outcome.kind = "Resolved"
    /\ peer.outcome.result.initialState # EmptyObject
    /\ peer.steps > 0

\* C18: $init without preloadState runs onCreate when the controller has one and
\* then returns false if onCreate redirected through go, on the server and on the
\* client, to a router target or to an absolute one, and true if it did not; with
\* preloadState it returns true and onCreate does not run. (Of a context already
\* marked finished by a go outside onCreate nothing is said.)
InitRedirectReport ==
    /\ pc = "onCreate" => ctrl.onCreate /\ ~ctrl.preloaded
    /\ (ctrl.preloaded /\ reducer.kind # "null") => ctrl.result = "true"
    /\ (kind = "controller" /\ ~ctrl.preloaded /\ ctrl.result # "none"
          /\ reducer.kind # "null" /\ (ctrl.finished => ctrl.went)) =>
          ctrl.result = (IF ctrl.went THEN "false" ELSE "true")

\* C19: on the server and on the client, a resolution in which the guarded redirect
\* entry point was called does not end Resolved with a non-empty Result, whatever
\* the initializer did afterwards, catching the sentinel and returning included.
NoResultAfterRedirect ==
    (pc = "done" /\ redirectCalled) =>
        ~(outcome.kind = "Resolved" /\ ~outcome.result.empty)

\* C20: a dispatch on a page that leaves the store's state as it was (no handler
\* for the type) leaves the working state as it was too: what an earlier setState
\* wrote directly is not overwritten by the bridge republishing the store's snapshot.
NoOpDispatchKeepsState ==
    [][ (kind = "page" /\ steps' = steps + 1 /\ last'.op \in {"dispatch", "bound"}
          /\ reducer.kind = "object" /\ ~HasHandler(reducer.handlers, last'.handed.type)
          /\ store'.state = last'.before) =>
          state' = state ]_vars

====
